---- MODULE Spec2Model ----
(***************************************************************************)
(* Model of src/src/amazon_lp_mcp_server.py: the two module-level loads    *)
(* (lp_data, transcript_data) followed by the seven tool functions, which  *)
(* are pure reads over the loaded snapshot.                                *)
(*                                                                         *)
(* A Python str is a sequence of one-character strings.  The alphabet is   *)
(* one cased letter in both cases, the hyphen and the space, which is what *)
(* str.lower, str.title and str.replace("-", " ") tell apart.              *)
(***************************************************************************)
EXTENDS Integers, Sequences, FiniteSets

(* lp_file, transcript_file: amazon-lp.json and transcripts.json as the     *)
(*   loads find them: present with some content, missing, corrupt or       *)
(*   unreadable                                                            *)
(* lp_data, transcript_data: the module globals of lines 46-47             *)
(* pc: "load_lp", "load_transcripts" (lines 46, 47), "serving" (waiting    *)
(*   for a tool call), "returned" (a tool has returned), "crashed" (an     *)
(*   exception left the module)                                            *)
(* last: the tool call that has just returned, with its return value       *)
(* kept: an earlier response the caller holds on to                        *)
VARIABLES lp_file, transcript_file, lp_data, transcript_data, pc, last, kept

vars == <<lp_file, transcript_file, lp_data, transcript_data, pc, last, kept>>

(***************************************************************************)
(* Bounds of the exploration                                               *)
(***************************************************************************)
MaxQueryLen == 2
MaxPrinciples == 2
MaxTranscripts == 2
MaxOver == 1

(* the 100 of lines 264 and 265 *)
Window == 100

(***************************************************************************)
(* Python str operations                                                   *)
(***************************************************************************)
Chars == {"a", "A", "-", " "}

Cased(c) == c \in {"a", "A"}

LowerChar(c) == IF c = "A" THEN "a" ELSE c

UpperChar(c) == IF c = "a" THEN "A" ELSE c

Min(a, b) == IF a < b THEN a ELSE b

Max(a, b) == IF a > b THEN a ELSE b

(* s.lower() *)
Lower(s) == [i \in 1..Len(s) |-> LowerChar(s[i])]

(* s.replace("-", " ") *)
ReplaceHyphen(s) == [i \in 1..Len(s) |-> IF s[i] = "-" THEN " " ELSE s[i]]

(* s.title(): a cased character is upper-cased when the character before   *)
(* it is uncased (or there is none), and lower-cased otherwise.            *)
Title(s) ==
  [i \in 1..Len(s) |->
     IF Cased(s[i])
     THEN IF i > 1 /\ Cased(s[i - 1]) THEN LowerChar(s[i]) ELSE UpperChar(s[i])
     ELSE s[i]]

(* t[start:end] for 0 <= start <= end <= len(t) *)
Slice(t, start, end) == SubSeq(t, start + 1, end)

(* t.find(s): the lowest 0-based offset at which s occurs in t, else -1 *)
OccursAt(t, s, i) == Slice(t, i, i + Len(s)) = s

Find(t, s) ==
  LET last_start == Len(t) - Len(s)
  IN IF \E i \in 0..last_start : OccursAt(t, s, i)
     THEN CHOOSE i \in 0..last_start :
            OccursAt(t, s, i) /\ \A j \in 0..(i - 1) : ~OccursAt(t, s, j)
     ELSE -1

(* s in t *)
In(s, t) == Find(t, s) # -1

(* all strings over cs of length at most n *)
RECURSIVE Strings(_, _)
Strings(cs, n) ==
  IF n = 0 THEN {<<>>}
  ELSE LET shorter == Strings(cs, n - 1)
       IN shorter \cup {Append(s, c) : s \in shorter, c \in cs}

(* n copies of c *)
Pad(c, n) == [i \in 1..n |-> c]

(***************************************************************************)
(* Loading, lines 20-47                                                    *)
(***************************************************************************)
EmptyLP == [introduction |-> <<>>, principles |-> <<>>]

EmptyTranscripts == <<>>

Unset == [unset |-> TRUE]

(* load_lp_data without its try/except *)
load_lp_data_uncaught(file) ==
  IF file.status = "ok" THEN [raised |-> FALSE, value |-> file.content]
  ELSE [raised |-> TRUE, value |-> Unset]

(* open() raises FileNotFoundError for a missing file, and only that is    *)
(* caught; json.load's JSONDecodeError on a corrupt file and open's        *)
(* PermissionError on an unreadable one leave the function.                *)
load_lp_data(file) ==
  IF file.status = "ok" THEN [raised |-> FALSE, value |-> file.content]
  ELSE IF file.status = "missing" THEN [raised |-> FALSE, value |-> EmptyLP]
  ELSE [raised |-> TRUE, value |-> Unset]

load_transcript_data(file) ==
  IF file.status = "ok" THEN [raised |-> FALSE, value |-> file.content]
  ELSE IF file.status = "missing"
       THEN [raised |-> FALSE, value |-> EmptyTranscripts]
  ELSE [raised |-> TRUE, value |-> Unset]

(***************************************************************************)
(* The tool functions, lines 85-282.  lp is lp_data, a record of the       *)
(* introduction and the list of principles; tr is transcript_data, a dict, *)
(* modelled as the sequence of its (key, text) items in insertion order.   *)
(***************************************************************************)
None == [none |-> TRUE]

(* lines 93-96 *)
list_principles(lp) ==
  [introduction |-> lp.introduction, principles |-> lp.principles]

(* the description test of line 114 left out *)
SearchTestNameOnly(principle, query) == In(query, Lower(principle.name))

(* lines 113-114 *)
SearchTest(principle, query) ==
  \/ In(query, Lower(principle.name))
  \/ In(query, Lower(principle.description))

(* lines 110-115: the loop appending to matches *)
RECURSIVE SearchLoop(_, _, _, _)
SearchLoop(ps, query, i, matches) ==
  IF i > Len(ps) THEN matches
  ELSE SearchLoop(ps, query, i + 1,
                  IF SearchTest(ps[i], query) THEN Append(matches, ps[i])
                  ELSE matches)

(* lines 109-120 *)
search_principles(lp, query) ==
  LET q == Lower(query)
  IN [matches |-> SearchLoop(lp.principles, q, 1, <<>>), query |-> q]

(* line 136 without .lower() on the principle's name *)
ExactTestCaseSensitive(principle, name_lower) == principle.name = name_lower

(* line 136 *)
ExactTest(principle, name_lower) == Lower(principle.name) = name_lower

(* line 145 with the operands of "in" swapped *)
PartialTestSwapped(principle, name_lower) ==
  In(Lower(principle.name), name_lower)

(* line 145 *)
PartialTest(principle, name_lower) == In(name_lower, Lower(principle.name))

(* lines 135-136: index of the principle the first loop returns at, else 0 *)
RECURSIVE ExactLoop(_, _, _)
ExactLoop(ps, name_lower, i) ==
  IF i > Len(ps) THEN 0
  ELSE IF ExactTest(ps[i], name_lower) THEN i
  ELSE ExactLoop(ps, name_lower, i + 1)

(* lines 144-145: index of the principle the second loop returns at, else 0 *)
RECURSIVE PartialLoop(_, _, _)
PartialLoop(ps, name_lower, i) ==
  IF i > Len(ps) THEN 0
  ELSE IF PartialTest(ps[i], name_lower) THEN i
  ELSE PartialLoop(ps, name_lower, i + 1)

MsgFound == "Found leadership principle: "

MsgFoundPartial == "Found leadership principle (partial match): "

MsgNotFound == "No leadership principle found with name: "

(* lines 133-156; an f-string message is the pair of its literal prefix    *)
(* and the string it embeds                                                *)
get_principle(lp, name) ==
  LET name_lower == Lower(name)
      ps == lp.principles
      e == ExactLoop(ps, name_lower, 1)
      p == PartialLoop(ps, name_lower, 1)
  IN IF e # 0
     THEN [principle |-> ps[e], found |-> TRUE,
           message |-> <<MsgFound, ps[e].name>>]
     ELSE IF p # 0
     THEN [principle |-> ps[p], found |-> TRUE,
           message |-> <<MsgFoundPartial, ps[p].name>>]
     ELSE [principle |-> None, found |-> FALSE,
           message |-> <<MsgNotFound, name>>]

(* lines 166-168 *)
get_introduction(lp) == [introduction |-> lp.introduction]

(* .title() left out *)
FormatNameNoTitle(principle_name) == ReplaceHyphen(principle_name)

(* principle_name.replace("-", " ").title(), lines 189, 200, 238, 261 *)
FormatName(principle_name) == Title(ReplaceHyphen(principle_name))

(* line 186 left out: the key is compared with its hyphens *)
KeyExactTestHyphens(principle_name, name_lower) ==
  Lower(principle_name) = name_lower

(* lines 186-187 *)
KeyExactTest(principle_name, name_lower) ==
  Lower(ReplaceHyphen(principle_name)) = name_lower

(* line 198 testing both directions, as line 212 does *)
KeyPartialTestBothWays(principle_name, name_lower) ==
  \/ In(name_lower, Lower(ReplaceHyphen(principle_name)))
  \/ In(Lower(ReplaceHyphen(principle_name)), name_lower)

(* lines 197-198 *)
KeyPartialTest(principle_name, name_lower) ==
  In(name_lower, Lower(ReplaceHyphen(principle_name)))

(* lines 211-212 *)
CrossTest(principle_name, principle) ==
  LET principle_key == ReplaceHyphen(principle_name)
  IN \/ In(Lower(principle_key), Lower(principle.name))
     \/ In(Lower(principle.name), Lower(principle_key))

(* lines 185-187 *)
RECURSIVE KeyExactLoop(_, _, _)
KeyExactLoop(tr, name_lower, i) ==
  IF i > Len(tr) THEN 0
  ELSE IF KeyExactTest(tr[i].key, name_lower) THEN i
  ELSE KeyExactLoop(tr, name_lower, i + 1)

(* lines 196-198 *)
RECURSIVE KeyPartialLoop(_, _, _)
KeyPartialLoop(tr, name_lower, i) ==
  IF i > Len(tr) THEN 0
  ELSE IF KeyPartialTest(tr[i].key, name_lower) THEN i
  ELSE KeyPartialLoop(tr, name_lower, i + 1)

(* lines 210-212: the inner loop for one principle *)
RECURSIVE CrossInner(_, _, _)
CrossInner(tr, principle, j) ==
  IF j > Len(tr) THEN 0
  ELSE IF CrossTest(tr[j].key, principle) THEN j
  ELSE CrossInner(tr, principle, j + 1)

(* lines 207-212: <<i, j>> of the principle and the transcript the nested  *)
(* loops return at, else <<0, 0>>                                          *)
RECURSIVE CrossLoop(_, _, _, _)
CrossLoop(ps, tr, name_lower, i) ==
  IF i > Len(ps) THEN <<0, 0>>
  ELSE IF Lower(ps[i].name) = name_lower /\ CrossInner(tr, ps[i], 1) # 0
       THEN <<i, CrossInner(tr, ps[i], 1)>>
  ELSE CrossLoop(ps, tr, name_lower, i + 1)

MsgTranscript == "Found transcript for: "

MsgTranscriptPartial == "Found transcript for (partial match): "

MsgNoTranscript == "No transcript found for leadership principle: "

(* lines 182-225 *)
get_transcript(lp, tr, name) ==
  LET name_lower == Lower(name)
      e == KeyExactLoop(tr, name_lower, 1)
      p == KeyPartialLoop(tr, name_lower, 1)
      c == CrossLoop(lp.principles, tr, name_lower, 1)
  IN IF e # 0
     THEN [principle_name |-> FormatName(tr[e].key),
           transcript |-> tr[e].text, found |-> TRUE,
           message |-> <<MsgTranscript, FormatName(tr[e].key)>>]
     ELSE IF p # 0
     THEN [principle_name |-> FormatName(tr[p].key),
           transcript |-> tr[p].text, found |-> TRUE,
           message |-> <<MsgTranscriptPartial, FormatName(tr[p].key)>>]
     ELSE IF c[1] # 0
     THEN [principle_name |-> lp.principles[c[1]].name,
           transcript |-> tr[c[2]].text, found |-> TRUE,
           message |-> <<MsgTranscript, lp.principles[c[1]].name>>]
     ELSE [principle_name |-> name, transcript |-> <<>>, found |-> FALSE,
           message |-> <<MsgNoTranscript, name>>]

(* lines 235-243 *)
list_transcripts(tr) ==
  [available_transcripts |-> [i \in 1..Len(tr) |-> FormatName(tr[i].key)]]

(* line 260 without .lower() on the transcript *)
ContainsTestCaseSensitive(transcript, query) == In(query, transcript)

(* line 260 *)
ContainsTest(transcript, query) == In(query, Lower(transcript))

(* line 263 *)
MatchIndex(transcript, query) == Find(Lower(transcript), query)

(* line 264 *)
ContextStart(index) == Max(0, index - Window)

(* line 265 without len(query) *)
ContextEndFromStart(transcript, query, index) ==
  Min(Len(transcript), index + Window)

(* line 265 *)
ContextEnd(transcript, query, index) ==
  Min(Len(transcript), index + Len(query) + Window)

Ellipsis == <<".", ".", ".">>

(* lines 268-272 *)
Context(transcript, start, end) ==
  LET context == Slice(transcript, start, end)
      left == IF start > 0 THEN Ellipsis \o context ELSE context
  IN IF end < Len(transcript) THEN left \o Ellipsis ELSE left

(* lines 261-277: the record appended for one matching transcript *)
MatchRecord(principle_name, transcript, query) ==
  LET index == MatchIndex(transcript, query)
      start == ContextStart(index)
      end == ContextEnd(transcript, query, index)
  IN [principle_name |-> FormatName(principle_name),
      context |-> Context(transcript, start, end)]

(* lines 259-277 *)
RECURSIVE TranscriptLoop(_, _, _, _)
TranscriptLoop(tr, query, i, matches) ==
  IF i > Len(tr) THEN matches
  ELSE TranscriptLoop(tr, query, i + 1,
         IF ContainsTest(tr[i].text, query)
         THEN Append(matches, MatchRecord(tr[i].key, tr[i].text, query))
         ELSE matches)

(* lines 256-282 *)
search_transcripts(tr, query) ==
  LET q == Lower(query)
  IN [matches |-> TranscriptLoop(tr, q, 1, <<>>), query |-> q]

(***************************************************************************)
(* The files the two loads read, and the arguments the tools are called    *)
(* with                                                                    *)
(***************************************************************************)
Queries == Strings(Chars, MaxQueryLen)

SeqsUpTo(S, n) == UNION {[1..k -> S] : k \in 0..n}

Principles(names, descs) == [name : names, description : descs]

LPContents(names, descs, intros, n) ==
  [introduction : intros, principles : SeqsUpTo(Principles(names, descs), n)]

(* a dict has each key once *)
TranscriptContents(keys, texts, n) ==
  {tr \in SeqsUpTo([key : keys, text : texts], n) :
     \A i, j \in 1..Len(tr) : tr[i].key = tr[j].key => i = j}

OkFiles(contents) == [status : {"ok"}, content : contents]

BadFiles == [status : {"missing", "corrupt", "unreadable"}, content : {<<>>}]

NamePool ==
  {<<>>, <<"A">>, <<"a", "a">>, <<"A", "a">>, <<"A", " ">>, <<"a", " ", "A">>}

DescPool == {<<>>, <<"A", "-">>}

IntroPool == {<<>>, <<"A", " ">>}

KeyPool ==
  {<<"a">>, <<"A">>, <<"a", "A">>, <<"a", "-">>, <<"a", "-", "a">>}

MarkPool == {<<"a">>, <<"A", "-">>}

(* transcripts long enough for both ends of the context window to clamp:   *)
(* the letters "Aa" between two runs of spaces, and the empty transcript   *)
PadLens == {0, Window, Window + MaxOver}

LongPool ==
  {Pad(" ", n) \o <<"A", "a">> \o Pad(" ", m) : n \in PadLens, m \in PadLens}
    \cup {<<>>}

(* the i-th key of a dict of long transcripts *)
SlugKey(i) == <<"a">> \o Pad("-", i - 1)

LongContents(n) ==
  UNION {{[i \in 1..k |-> [key |-> SlugKey(i), text |-> t[i]]] :
            t \in [1..k -> LongPool]} : k \in 0..n}

P(name, description) == [name |-> name, description |-> description]

SmallLP ==
  {[introduction |-> <<>>, principles |-> <<>>],
   [introduction |-> <<"A", " ">>,
    principles |-> <<P(<<"A">>, <<"A", "-">>)>>],
   [introduction |-> <<"A", " ">>,
    principles |-> <<P(<<"A", "a">>, <<>>), P(<<"a", "a">>, <<"A", "-">>)>>],
   [introduction |-> <<>>,
    principles |-> <<P(<<"A", " ">>, <<>>), P(<<"A", "a">>, <<>>)>>]}

T(key, text) == [key |-> key, text |-> text]

SmallTranscripts ==
  {<<>>,
   <<T(<<"a">>, <<"a", " ", "A">>)>>,
   <<T(<<"a", "-", "a">>, <<"A", "-">>), T(<<"a">>, <<"a">>)>>}

NoCall == [op |-> "none", arg |-> <<>>, result |-> None]

Boot(lpFiles, trFiles) ==
  /\ lp_file \in lpFiles
  /\ transcript_file \in trFiles
  /\ lp_data = Unset
  /\ transcript_data = Unset
  /\ pc = "load_lp"
  /\ last = NoCall
  /\ kept = NoCall

(* either file present, missing, corrupt or unreadable *)
Init ==
  Boot(OkFiles(SmallLP) \cup BadFiles, OkFiles(SmallTranscripts) \cup BadFiles)

(* every principle list over the name and description pools *)
InitPrinciples ==
  Boot(OkFiles(LPContents(NamePool, DescPool, IntroPool, MaxPrinciples)),
       OkFiles({<<T(<<"a">>, <<"a", " ", "A">>)>>}))

(* every transcript dict over the key pool *)
InitTranscripts ==
  Boot(OkFiles(SmallLP),
       OkFiles(TranscriptContents(KeyPool, MarkPool, MaxTranscripts)))

(* every dict of long transcripts *)
InitSearch ==
  Boot(OkFiles({[introduction |-> <<>>, principles |-> <<>>]}),
       OkFiles(LongContents(MaxTranscripts)))

(***************************************************************************)
(* Actions                                                                 *)
(***************************************************************************)
(* line 46; an exception at import ends the process before mcp.run() *)
LoadLP ==
  /\ pc = "load_lp"
  /\ LET r == load_lp_data(lp_file)
     IN IF r.raised
        THEN pc' = "crashed" /\ UNCHANGED lp_data
        ELSE pc' = "load_transcripts" /\ lp_data' = r.value
  /\ UNCHANGED <<lp_file, transcript_file, transcript_data, last, kept>>

(* line 47 *)
LoadTranscripts ==
  /\ pc = "load_transcripts"
  /\ LET r == load_transcript_data(transcript_file)
     IN IF r.raised
        THEN pc' = "crashed" /\ UNCHANGED transcript_data
        ELSE pc' = "serving" /\ transcript_data' = r.value
  /\ UNCHANGED <<lp_file, transcript_file, lp_data, last, kept>>

(* a tool call returns: the return value is the response in flight and    *)
(* nothing else is assigned                                                *)
Respond(op, arg, result) ==
  /\ pc' = "returned"
  /\ last' = [op |-> op, arg |-> arg, result |-> result]
  /\ UNCHANGED <<lp_file, transcript_file, lp_data, transcript_data, kept>>

(* the response is delivered and the server waits for the next call *)
Return ==
  /\ pc = "returned"
  /\ pc' = "serving"
  /\ last' = NoCall
  /\ UNCHANGED <<lp_file, transcript_file, lp_data, transcript_data, kept>>

(* the same, and the caller keeps the response to compare a later one with *)
Keep ==
  /\ pc = "returned"
  /\ pc' = "serving"
  /\ kept' = last
  /\ last' = NoCall
  /\ UNCHANGED <<lp_file, transcript_file, lp_data, transcript_data>>

ListPrinciples ==
  /\ pc = "serving"
  /\ Respond("list_principles", <<>>, list_principles(lp_data))

(* search_principles assigning its matches to lp_data["principles"] *)
SearchPrinciplesInPlace ==
  \E q \in Queries :
    /\ pc = "serving"
    /\ pc' = "returned"
    /\ last' = [op |-> "search_principles", arg |-> q,
                result |-> search_principles(lp_data, q)]
    /\ lp_data' =
         [lp_data EXCEPT !.principles = search_principles(lp_data, q).matches]
    /\ UNCHANGED <<lp_file, transcript_file, transcript_data, kept>>

SearchPrinciples ==
  \E q \in Queries :
    /\ pc = "serving"
    /\ Respond("search_principles", q, search_principles(lp_data, q))

GetPrinciple ==
  \E q \in Queries :
    /\ pc = "serving"
    /\ Respond("get_principle", q, get_principle(lp_data, q))

GetIntroduction ==
  /\ pc = "serving"
  /\ Respond("get_introduction", <<>>, get_introduction(lp_data))

GetTranscript ==
  \E q \in Queries :
    /\ pc = "serving"
    /\ Respond("get_transcript", q,
               get_transcript(lp_data, transcript_data, q))

ListTranscripts ==
  /\ pc = "serving"
  /\ Respond("list_transcripts", <<>>, list_transcripts(transcript_data))

SearchTranscripts ==
  \E q \in Queries :
    /\ pc = "serving"
    /\ Respond("search_transcripts", q,
               search_transcripts(transcript_data, q))

Next ==
  \/ LoadLP
  \/ LoadTranscripts
  \/ ListPrinciples
  \/ SearchPrinciples
  \/ GetPrinciple
  \/ GetIntroduction
  \/ GetTranscript
  \/ ListTranscripts
  \/ SearchTranscripts
  \/ Return

(* the calls, with a caller that may keep one response *)
NextKeep == Next \/ Keep

Spec == Init /\ [][Next]_vars

SpecCalls == Init /\ [][NextKeep]_vars

SpecPrinciples == InitPrinciples /\ [][Next]_vars

SpecTranscripts == InitTranscripts /\ [][Next]_vars

SpecSearch == InitSearch /\ [][Next]_vars

(***************************************************************************)
(* Vocabulary of the properties                                            *)
(***************************************************************************)
(* s occurs in t as a contiguous substring *)
Contains(t, s) ==
  \E i \in 0..(Len(t) - Len(s)) : SubSeq(t, i + 1, i + Len(s)) = s

Least(S) == CHOOSE i \in S : \A j \in S : i <= j

(* the k-th smallest element of S *)
Nth(S, k) == CHOOSE i \in S : Cardinality({j \in S : j < i}) = k - 1

(* the key with hyphens replaced by spaces and each word title-cased *)
DisplayName(key) ==
  [i \in 1..Len(key) |->
     IF key[i] = "-" THEN " "
     ELSE IF key[i] \in {"a", "A"}
          THEN IF i = 1 \/ key[i - 1] \notin {"a", "A"} THEN "A" ELSE "a"
     ELSE key[i]]

(* the key with hyphens replaced by spaces, lower-cased *)
NormalKey(key) ==
  Lower([i \in 1..Len(key) |-> IF key[i] = "-" THEN " " ELSE key[i]])

Returned(op) == pc = "returned" /\ last.op = op

HasUpper(s) == \E i \in 1..Len(s) : s[i] = "A"

(* indices of the principles whose lower-cased name equals q / contains q *)
NameEq(q) ==
  {i \in 1..Len(lp_data.principles) : Lower(lp_data.principles[i].name) = q}

NameHas(q) ==
  {i \in 1..Len(lp_data.principles) :
     Contains(Lower(lp_data.principles[i].name), q)}

(* C1: when some principle's lower-cased name equals the lower-cased query, *)
(* get_principle returns found=true with the exact-match message embedding  *)
(* the original-cased name, and the principle is the first one in dataset   *)
(* order whose lower-cased name equals the query.                           *)
C1_ExactFirst ==
  Returned("get_principle") =>
    LET q == Lower(last.arg)
        ps == lp_data.principles
    IN NameEq(q) # {} =>
         /\ last.result.found = TRUE
         /\ last.result.principle = ps[Least(NameEq(q))]
         /\ last.result.message = <<MsgFound, ps[Least(NameEq(q))].name>>

(* an exact match in another case, behind a principle that only contains   *)
(* the query                                                               *)
C1_Witness ==
  /\ Returned("get_principle")
  /\ LET q == Lower(last.arg)
     IN /\ NameEq(q) # {}
        /\ Least(NameEq(q)) > 1
        /\ 1 \in NameHas(q)
        /\ last.arg # last.result.principle.name
        /\ last.result.message[1] = MsgFound

(* C2: with no case-insensitive exact match, get_principle returns the     *)
(* first principle in dataset order whose lower-cased name contains the    *)
(* lower-cased query, with the partial-match message embedding its         *)
(* original-cased name; when no name contains it the result is the record  *)
(* found=false, principle null, not-found message; the empty query returns *)
(* the first principle of a non-empty dataset.                             *)
C2_PartialFirst ==
  Returned("get_principle") =>
    LET q == Lower(last.arg)
        ps == lp_data.principles
    IN NameEq(q) = {} =>
         /\ NameHas(q) # {} =>
               /\ last.result.found = TRUE
               /\ last.result.principle = ps[Least(NameHas(q))]
               /\ last.result.message =
                    <<MsgFoundPartial, ps[Least(NameHas(q))].name>>
         /\ NameHas(q) = {} =>
               /\ last.result.found = FALSE
               /\ last.result.principle = None
               /\ last.result.message = <<MsgNotFound, last.arg>>
         /\ (q = <<>> /\ ps # <<>>) =>
               last.result.found = TRUE /\ last.result.principle = ps[1]

(* a partial match with two candidates, the first of them the longer name *)
C2_Witness ==
  /\ Returned("get_principle")
  /\ LET q == Lower(last.arg)
        ps == lp_data.principles
     IN /\ NameEq(q) = {}
        /\ Cardinality(NameHas(q)) = 2
        /\ Len(ps[1].name) > Len(ps[2].name)
        /\ last.result.principle = ps[1]
        /\ HasUpper(last.arg)

(* indices of the principles whose lower-cased name or description         *)
(* contains q                                                              *)
SearchHits(q) ==
  {i \in 1..Len(lp_data.principles) :
     \/ Contains(Lower(lp_data.principles[i].name), q)
     \/ Contains(Lower(lp_data.principles[i].description), q)}

(* C3: search_principles(q).matches is exactly the subsequence of the      *)
(* principles whose lower-cased name or description contains lower(q), in  *)
(* dataset order; the empty query returns every principle and a query that *)
(* matches nothing returns the empty list.                                 *)
C3_SearchSubsequence ==
  Returned("search_principles") =>
    LET q == Lower(last.arg)
        ps == lp_data.principles
        hits == SearchHits(q)
        m == last.result.matches
    IN /\ Len(m) = Cardinality(hits)
       /\ \A k \in 1..Len(m) : m[k] = ps[Nth(hits, k)]
       /\ q = <<>> => m = ps
       /\ hits = {} => m = <<>>

(* the first principle is left out and the second is matched by its        *)
(* description alone, in another case                                      *)
C3_Witness ==
  /\ Returned("search_principles")
  /\ LET q == Lower(last.arg)
        ps == lp_data.principles
     IN /\ SearchHits(q) = {2}
        /\ ~Contains(Lower(ps[2].name), q)
        /\ ~Contains(ps[2].description, last.arg)
        /\ last.result.matches = <<ps[2]>>

(* indices of the transcripts whose normalized key equals q, contains q,  *)
(* is contained in q                                                       *)
KeyEq(q) ==
  {i \in 1..Len(transcript_data) : NormalKey(transcript_data[i].key) = q}

KeyHas(q) ==
  {i \in 1..Len(transcript_data) :
     Contains(NormalKey(transcript_data[i].key), q)}

KeyIn(q) ==
  {i \in 1..Len(transcript_data) :
     Contains(q, NormalKey(transcript_data[i].key))}

(* C4: when some normalized transcript key equals the lower-cased query,   *)
(* get_transcript returns found=true with the text of the first such key   *)
(* and the message without "(partial match)", whatever keys before it      *)
(* contain the query.                                                      *)
C4_KeyExactFirst ==
  Returned("get_transcript") =>
    LET q == Lower(last.arg)
    IN KeyEq(q) # {} =>
         /\ last.result.found = TRUE
         /\ last.result.transcript = transcript_data[Least(KeyEq(q))].text
         /\ last.result.message[1] = MsgTranscript

(* the hyphenated second key equals the query and the first key only       *)
(* contains it                                                             *)
C4_Witness ==
  /\ Returned("get_transcript")
  /\ LET q == Lower(last.arg)
        tr == transcript_data
     IN /\ KeyEq(q) = {2}
        /\ 1 \in KeyHas(q)
        /\ Contains(tr[2].key, <<"-">>)
        /\ tr[1].text # tr[2].text
        /\ last.result.transcript = tr[2].text

(* C5, as claimed: with no exact key match, get_transcript returns the     *)
(* first transcript whose normalized key contains the query or is          *)
(* contained in it, and found=false only if neither holds for any key,     *)
(* whatever the principle list holds.                                      *)
C5_Bidirectional ==
  Returned("get_transcript") =>
    LET q == Lower(last.arg)
        both == KeyHas(q) \cup KeyIn(q)
    IN KeyEq(q) = {} =>
         /\ both # {} =>
               /\ last.result.found = TRUE
               /\ last.result.transcript = transcript_data[Least(both)].text
         /\ both = {} => last.result.found = FALSE

(* C5, amended: with no exact key match, get_transcript returns the first  *)
(* transcript whose normalized key contains the query; failing that, and   *)
(* only when the query equals the lower-cased name of some principle, the  *)
(* first transcript whose normalized key is contained in the query;        *)
(* otherwise found=false.                                                  *)
C5_ForwardThenCrossReference ==
  Returned("get_transcript") =>
    LET q == Lower(last.arg)
    IN KeyEq(q) = {} =>
         IF KeyHas(q) # {}
         THEN /\ last.result.found = TRUE
              /\ last.result.transcript =
                   transcript_data[Least(KeyHas(q))].text
              /\ last.result.message[1] = MsgTranscriptPartial
         ELSE IF NameEq(q) # {} /\ KeyIn(q) # {}
         THEN /\ last.result.found = TRUE
              /\ last.result.transcript =
                   transcript_data[Least(KeyIn(q))].text
         ELSE /\ last.result.found = FALSE
              /\ last.result.transcript = <<>>

(* the cross-reference path: no key contains the query, a principle bears  *)
(* it as its name, and the second key is contained in it                   *)
C5_Witness ==
  /\ Returned("get_transcript")
  /\ LET q == Lower(last.arg)
     IN /\ KeyEq(q) = {}
        /\ KeyHas(q) = {}
        /\ NameEq(q) # {}
        /\ KeyIn(q) = {2}
        /\ transcript_data[1].text # transcript_data[2].text
        /\ last.result.found = TRUE

(* C6, as claimed: in every found=true result principle_name is the        *)
(* display name of the key whose text is returned, on every path.          *)
C6_DisplayNameEveryPath ==
  (Returned("get_transcript") /\ last.result.found) =>
    \E i \in 1..Len(transcript_data) :
      /\ last.result.transcript = transcript_data[i].text
      /\ last.result.principle_name = DisplayName(transcript_data[i].key)

(* C6, amended: on the exact and the partial path principle_name is the    *)
(* display name of the key whose text is returned; on the cross-reference  *)
(* path it is the original-cased name of the first principle whose         *)
(* lower-cased name equals the query, and transcript is the text of the    *)
(* first key contained in the query.                                       *)
C6_DisplayNameOrPrincipleName ==
  (Returned("get_transcript") /\ last.result.found) =>
    LET q == Lower(last.arg)
        tr == transcript_data
        direct == IF KeyEq(q) # {} THEN KeyEq(q) ELSE KeyHas(q)
    IN IF direct # {}
       THEN /\ last.result.principle_name = DisplayName(tr[Least(direct)].key)
            /\ last.result.transcript = tr[Least(direct)].text
       ELSE /\ NameEq(q) # {}
            /\ last.result.principle_name =
                 lp_data.principles[Least(NameEq(q))].name
            /\ last.result.transcript = tr[Least(KeyIn(q))].text

(* a partial match on a key that the display name rewrites: a hyphen and a *)
(* capital inside a word                                                   *)
C6_Witness ==
  /\ Returned("get_transcript")
  /\ last.result.found
  /\ LET q == Lower(last.arg)
        tr == transcript_data
     IN /\ KeyEq(q) = {}
        /\ KeyHas(q) = {1, 2}
        /\ tr[1].key = <<"a", "-", "a">>
        /\ tr[2].key = <<"a", "A">>
        /\ last.result.principle_name = <<"A", " ", "A">>

(* indices of the transcripts whose lower-cased text contains q *)
TextHits(q) ==
  {i \in 1..Len(transcript_data) :
     Contains(Lower(transcript_data[i].text), q)}

(* the lowest offset at which q occurs in the lower-cased text *)
FirstAt(text, q) ==
  LET low == Lower(text)
  IN CHOOSE i \in 0..(Len(text) - Len(q)) :
       /\ SubSeq(low, i + 1, i + Len(q)) = q
       /\ \A j \in 0..(i - 1) : SubSeq(low, j + 1, j + Len(q)) # q

WindowFrom(i) == IF i > Window THEN i - Window ELSE 0

WindowTo(text, q, i) ==
  IF i + Len(q) + Window < Len(text) THEN i + Len(q) + Window ELSE Len(text)

Dots == <<".", ".", ".">>

(* the original-cased window around offset i, with an ellipsis on each     *)
(* side the window does not reach the end of                               *)
WindowText(text, q, i) ==
  (IF WindowFrom(i) > 0 THEN Dots ELSE <<>>)
    \o SubSeq(text, WindowFrom(i) + 1, WindowTo(text, q, i))
    \o (IF WindowTo(text, q, i) < Len(text) THEN Dots ELSE <<>>)

(* C7: search_transcripts(q).matches holds one record per transcript whose *)
(* lower-cased text contains lower(q) and none for any other, in dataset   *)
(* order, each under the display name of its key and anchored at the first *)
(* occurrence; the empty query yields a record for every transcript,       *)
(* anchored at offset 0; a query that matches nothing yields the empty     *)
(* list.                                                                   *)
C7_OneRecordPerTranscript ==
  Returned("search_transcripts") =>
    LET q == Lower(last.arg)
        tr == transcript_data
        hits == TextHits(q)
        m == last.result.matches
    IN /\ Len(m) = Cardinality(hits)
       /\ \A k \in 1..Len(m) :
            LET t == tr[Nth(hits, k)]
            IN /\ m[k].principle_name = DisplayName(t.key)
               /\ m[k].context = WindowText(t.text, q, FirstAt(t.text, q))
       /\ q = <<>> =>
            /\ Len(m) = Len(tr)
            /\ \A k \in 1..Len(m) : m[k].context = WindowText(tr[k].text, q, 0)
       /\ hits = {} => m = <<>>

(* the first transcript is left out; the second holds the query twice, in  *)
(* another case, the first time past the window                            *)
C7_Witness ==
  /\ Returned("search_transcripts")
  /\ LET q == Lower(last.arg)
        tr == transcript_data
     IN /\ TextHits(q) = {2}
        /\ FirstAt(tr[2].text, q) > Window
        /\ Contains(SubSeq(Lower(tr[2].text), FirstAt(tr[2].text, q) + 2,
                           Len(tr[2].text)), q)
        /\ SubSeq(tr[2].text, FirstAt(tr[2].text, q) + 1,
                  FirstAt(tr[2].text, q) + Len(q)) # q
        /\ Len(last.result.matches) = 1

StartsWithDots(c) == Len(c) >= 3 /\ SubSeq(c, 1, 3) = Dots

EndsWithDots(c) == Len(c) >= 3 /\ SubSeq(c, Len(c) - 2, Len(c)) = Dots

(* C8: each record's context is the original-cased slice                   *)
(* t[max(0,i-100) : min(len(t), i+len(q)+100)] around the first occurrence *)
(* i, which holds the matched text and at most 100 characters on either    *)
(* side of it, with "..." before it iff the slice does not start at 0 and  *)
(* "..." after it iff the slice does not end at len(t).                    *)
C8_ContextWindow ==
  Returned("search_transcripts") =>
    LET q == Lower(last.arg)
        hits == TextHits(q)
        m == last.result.matches
    IN \A k \in 1..Len(m) :
         LET t == transcript_data[Nth(hits, k)].text
             i == FirstAt(t, q)
             from == IF i - 100 > 0 THEN i - 100 ELSE 0
             to == IF i + Len(q) + 100 < Len(t) THEN i + Len(q) + 100
                   ELSE Len(t)
             c == m[k].context
             excerpt == SubSeq(c, (IF from > 0 THEN 4 ELSE 1),
                               Len(c) - (IF to < Len(t) THEN 3 ELSE 0))
         IN /\ excerpt = SubSeq(t, from + 1, to)
            /\ Len(c) = Len(excerpt) + (IF from > 0 THEN 3 ELSE 0)
                                     + (IF to < Len(t) THEN 3 ELSE 0)
            /\ StartsWithDots(c) <=> from > 0
            /\ EndsWithDots(c) <=> to < Len(t)
            /\ from <= i /\ i - from <= 100
            /\ i + Len(q) <= to /\ to - (i + Len(q)) <= 100
            /\ Lower(SubSeq(excerpt, i - from + 1, i - from + Len(q))) = q

(* a match in another case with more than 100 characters before it and     *)
(* exactly 100 after it: an ellipsis on the left only                      *)
C8_Witness ==
  /\ Returned("search_transcripts")
  /\ Len(last.result.matches) >= 1
  /\ LET q == Lower(last.arg)
        t == transcript_data[Nth(TextHits(q), 1)].text
        i == FirstAt(t, q)
        c == last.result.matches[1].context
     IN /\ HasUpper(last.arg)
        /\ i > 100
        /\ Len(t) - (i + Len(q)) = 100
        /\ StartsWithDots(c)
        /\ ~EndsWithDots(c)

Failed(file) == file.status \in {"corrupt", "unreadable"}

Serving == pc \in {"serving", "returned"}

(* the results over a defaulted source: empty lists, found=false *)
EmptyResults ==
  /\ (lp_file.status # "ok" /\ Returned("list_principles")) =>
       last.result = [introduction |-> <<>>, principles |-> <<>>]
  /\ (lp_file.status # "ok" /\ Returned("search_principles")) =>
       last.result.matches = <<>>
  /\ (lp_file.status # "ok" /\ Returned("get_principle")) =>
       last.result.found = FALSE /\ last.result.principle = None
  /\ (lp_file.status # "ok" /\ Returned("get_introduction")) =>
       last.result = [introduction |-> <<>>]
  /\ (transcript_file.status # "ok" /\ Returned("get_transcript")) =>
       last.result.found = FALSE /\ last.result.transcript = <<>>
  /\ (transcript_file.status # "ok" /\ Returned("list_transcripts")) =>
       last.result = [available_transcripts |-> <<>>]
  /\ (transcript_file.status # "ok" /\ Returned("search_transcripts")) =>
       last.result.matches = <<>>

C10_ReadOnly ==
  /\ [][Serving => (lp_data' = lp_data /\ transcript_data' = transcript_data)]_vars
  /\ [](Returned("list_principles") =>
          /\ last.result.introduction = lp_data.introduction
          /\ last.result.principles = lp_data.principles)
  /\ []((pc = "returned" /\ kept.op = last.op /\ kept.arg = last.arg) =>
          kept.result = last.result)

(* a search that selected one of two principles was kept, another call was *)
(* made since, and the same search has returned again                      *)
C10_Witness ==
  /\ Returned("search_principles")
  /\ kept.op = "search_principles"
  /\ kept.arg = last.arg
  /\ Len(lp_data.principles) = 2
  /\ Len(kept.result.matches) = 1

====
